---- MODULE Spec2Model ----
(***************************************************************************)
(* Model of the TSPL parsing cursor (src/src/lib.rs): the Parser trait's   *)
(* default methods over the accessor pair input()/index().                 *)
(*                                                                         *)
(* A char is its Unicode scalar value (an integer); a &str is the sequence *)
(* of its chars; byte offsets are computed from len_utf8 of each char, so  *)
(* `index` is a byte offset exactly as in the source.                      *)
(***************************************************************************)
EXTENDS Integers, Sequences, FiniteSets, TLC

VARIABLES input, index, op, arg, ret, pre

vars == <<input, index, op, arg, ret, pre>>

(***************************************************************************)
(* Bounds of the model.                                                    *)
(***************************************************************************)
MaxLen == 2
MaxCount == 3
MaxStrLen == 3
MaxNumLen == 3

(***************************************************************************)
(* str and char helpers of the standard library, as the code uses them.    *)
(***************************************************************************)
\* v bound to a name in the body F, as a `let` of the source: like the
\* `let`, it evaluates v first (the test v = v) and then the body
With(v, F(_)) == IF v = v THEN F(v) ELSE F(v)

\* char::len_utf8
len_utf8(c) == IF c < 128 THEN 1 ELSE IF c < 2048 THEN 2 ELSE IF c < 65536 THEN 3 ELSE 4

\* str::len: the length in bytes, the sum of len_utf8 over the chars (one
\* byte for each char, and one more for each char of at least 2, 3, 4 bytes)
str_len(s) ==
  Len(s) + Cardinality({k \in 1..Len(s) : len_utf8(s[k]) >= 2})
         + Cardinality({k \in 1..Len(s) : len_utf8(s[k]) >= 3})
         + Cardinality({k \in 1..Len(s) : len_utf8(s[k]) >= 4})

\* byte offset at which the k-th char (1-based) of s starts; k = Len(s)+1 is the end
ByteOff(s, k) == str_len(SubSeq(s, 1, k - 1))

\* str::is_char_boundary
is_char_boundary(s, i) == \E k \in 1..(Len(s) + 1) : ByteOff(s, k) = i

\* the 1-based char position of the boundary i
CharAt(s, i) == CHOOSE k \in 1..(Len(s) + 1) : ByteOff(s, k) = i

None == [tag |-> "None"]
Some(v) == [tag |-> "Some", val |-> v]

\* str::get(i..): None unless i is a char boundary of s (and so i <= s.len())
GetFrom(s, i) ==
  IF is_char_boundary(s, i) THEN Some(SubSeq(s, CharAt(s, i), Len(s))) ELSE None

\* str::get(i..).unwrap_or_default()
GetFromOrDefault(s, i) ==
  IF is_char_boundary(s, i) THEN SubSeq(s, CharAt(s, i), Len(s)) ELSE <<>>

\* &s[a..b] for char boundaries a <= b (anything else panics in the source):
\* the chars lying in the byte range [a, b)
Slice(s, a, b) ==
  With({k \in 1..Len(s) : ByteOff(s, k) >= a /\ ByteOff(s, k + 1) <= b}, LAMBDA ks :
    IF ks = {} THEN <<>>
    ELSE SubSeq(s, CHOOSE k \in ks : \A j \in ks : k <= j,
                   CHOOSE k \in ks : \A j \in ks : k >= j))

\* str::starts_with(&str)
StrStartsWith(s, t) == Len(t) <= Len(s) /\ SubSeq(s, 1, Len(t)) = t

\* char::is_ascii_whitespace: space, tab, line feed, form feed, carriage return
is_ascii_whitespace(c) == c \in {32, 9, 10, 12, 13}

\* char::is_ascii_alphanumeric
is_ascii_alphanumeric(c) == c \in (48..57) \cup (65..90) \cup (97..122)

\* char::to_digit(radix), -1 for None
to_digit(c, radix) ==
  With(IF c \in 48..57 THEN c - 48
       ELSE IF c \in 97..122 THEN c - 97 + 10
       ELSE IF c \in 65..90 THEN c - 65 + 10
       ELSE 99,
       LAMBDA d : IF d < radix THEN d ELSE -1)

\* char::is_digit(radix)
is_digit(c, radix) == to_digit(c, radix) >= 0

(***************************************************************************)
(* String literals of the source, as sequences of chars.                   *)
(***************************************************************************)
StrSlashSlash == <<47, 47>>                                   \* "//"
StrHexPrefix == <<48, 120>>                                   \* "0x"
StrBinPrefix == <<48, 98>>                                    \* "0b"
StrNameExtra == <<95, 46, 45, 47, 36>>                        \* "_.-/$"
StrName == <<110, 97, 109, 101>>                              \* "name"
StrNumericDigit ==
  <<110, 117, 109, 101, 114, 105, 99, 32, 100, 105, 103, 105, 116>> \* "numeric digit"
StrInteger == <<105, 110, 116, 101, 103, 101, 114>>           \* "integer"
StrUnicodeCodepoint ==
  <<117, 110, 105, 99, 111, 100, 101, 45, 99, 111, 100, 101, 112, 111, 105, 110, 116>>
                                                              \* "unicode-codepoint"
StrEscapedChar ==
  <<101, 115, 99, 97, 112, 101, 100, 45, 99, 104, 97, 114>>   \* "escaped-char"
StrChar == <<99, 104, 97, 114>>                               \* "char"
StrLBrace == <<123>>                                          \* "{"
StrRBrace == <<125>>                                          \* "}"
StrApostrophe == <<39>>                                       \* "'"
StrQuote == <<34>>                                            \* "\""
\* IntErrorKind::PosOverflow.to_string()
StrPosOverflow == "number too large to fit in target type"

(***************************************************************************)
(* ParseError and the error constructors.  The message is kept as its      *)
(* parts: what was expected and the info line ("" when there is none); the *)
(* highlighted context is the external renderer's output and is not        *)
(* modelled.                                                               *)
(***************************************************************************)
ParseError(span, exp, info) == [span |-> span, exp |-> exp, info |-> info]

Ok(v) == [tag |-> "Ok", val |-> v]
Err(e) == [tag |-> "Err", err |-> e]
Unit == <<>>

\* Parser::expected: Err with span (index, index + 1)
expected(s, i, exp) == Err(ParseError(<<i, i + 1>>, exp, ""))

\* Parser::expected_and
expected_and(s, i, exp, msg) == Err(ParseError(<<i, i + 1>>, exp, msg))

(***************************************************************************)
(* Lookahead and advance.  A method that moves the cursor is an operator   *)
(* from (input, index) to the new index and the returned value.            *)
(***************************************************************************)
Res(i, r) == [index |-> i, ret |-> r]

\* Parser::peek_one
peek_one(s, i) ==
  IF GetFrom(s, i).tag = "None" \/ GetFrom(s, i).val = <<>> THEN None
  ELSE Some(Head(GetFrom(s, i).val))

\* the loop of peek_many counting one byte per char instead of len_utf8
RECURSIVE PeekManyEndBytes(_, _, _, _)
PeekManyEndBytes(chars, n, count, end) ==
  IF chars = <<>> \/ n >= count THEN end
  ELSE IF n + 1 = count THEN end + 1
  ELSE PeekManyEndBytes(Tail(chars), n + 1, count, end + 1)

\* the for loop of peek_many: end_index after visiting the first `count` chars
RECURSIVE PeekManyEnd(_, _, _, _)
PeekManyEnd(chars, n, count, end) ==
  IF chars = <<>> \/ n >= count THEN end
  ELSE IF n + 1 = count THEN end + len_utf8(Head(chars))
  ELSE PeekManyEnd(Tail(chars), n + 1, count, end + len_utf8(Head(chars)))

\* Parser::peek_many
peek_many(s, i, count) ==
  With(GetFrom(s, i), LAMBDA r :
    IF r.tag = "None" THEN None
    ELSE Some(Slice(s, i, PeekManyEnd(r.val, 0, count, i))))

\* advance_one moving one byte instead of the char's len_utf8
advance_one_byte(s, i) ==
  IF peek_one(s, i).tag = "None" THEN Res(i, None)
  ELSE Res(i + 1, peek_one(s, i))

\* Parser::advance_one
advance_one(s, i) ==
  IF peek_one(s, i).tag = "None" THEN Res(i, None)
  ELSE Res(i + len_utf8(peek_one(s, i).val), peek_one(s, i))

\* advance_many assigning the length to the index instead of adding it
advance_many_assign(s, i, count) ==
  With(peek_many(s, i, count), LAMBDA result :
    IF result.tag = "None" THEN Res(i, None)
    ELSE Res(str_len(result.val), result))

\* Parser::advance_many
advance_many(s, i, count) ==
  With(peek_many(s, i, count), LAMBDA result :
    IF result.tag = "None" THEN Res(i, None)
    ELSE Res(i + str_len(result.val), result))

\* Parser::is_eof
is_eof(s, i) == i >= str_len(s)

\* Parser::starts_with
starts_with(s, i, text) ==
  With(peek_many(s, i, Len(text)), LAMBDA r :
    IF r.tag = "None" THEN FALSE ELSE r.val = text)

(***************************************************************************)
(* Trivia skipper.                                                         *)
(***************************************************************************)
\* `while let Some(c) = self.peek_one()` with `c.is_ascii_whitespace()`
PeekIsWhitespace(s, i) ==
  peek_one(s, i).tag = "Some" /\ is_ascii_whitespace(peek_one(s, i).val)

\* Parser::skip_spaces
RECURSIVE skip_spaces(_, _)
skip_spaces(s, i) ==
  IF PeekIsWhitespace(s, i) THEN skip_spaces(s, advance_one(s, i).index) ELSE i

\* `while let Some(c) = self.peek_one()` with `c != '\n'`
PeekIsNotNewline(s, i) ==
  peek_one(s, i).tag = "Some" /\ peek_one(s, i).val # 10

\* the inner loop of skip_trivia: advance up to the next '\n' or the end
RECURSIVE SkipLine(_, _)
SkipLine(s, i) ==
  IF PeekIsNotNewline(s, i) THEN SkipLine(s, advance_one(s, i).index) ELSE i

\* the test of the second `if` of skip_trivia: a '/' that starts "//"
PeekIsComment(s, i) ==
  /\ peek_one(s, i).tag = "Some"
  /\ peek_one(s, i).val = 47
  /\ StrStartsWith(GetFromOrDefault(s, i), StrSlashSlash)

\* skip_trivia stopping after one comment instead of continuing the loop
RECURSIVE skip_trivia_one_comment(_, _)
skip_trivia_one_comment(s, i) ==
  CASE PeekIsWhitespace(s, i) -> skip_trivia_one_comment(s, advance_one(s, i).index)
    [] PeekIsComment(s, i) -> advance_one(s, SkipLine(s, i)).index
    [] OTHER -> i

\* Parser::skip_trivia: the two `continue` arms and the final `break`
RECURSIVE skip_trivia(_, _)
skip_trivia(s, i) ==
  CASE PeekIsWhitespace(s, i) -> skip_trivia(s, advance_one(s, i).index)
    [] PeekIsComment(s, i) -> skip_trivia(s, advance_one(s, SkipLine(s, i)).index)
    [] OTHER -> i

(***************************************************************************)
(* consume, take_while, parse_name.                                        *)
(***************************************************************************)
\* consume advancing by the number of chars of the literal, not its bytes
consume_chars(s, i, text) ==
  With(skip_trivia(s, i), LAMBDA j :
    IF StrStartsWith(GetFromOrDefault(s, j), text)
    THEN Res(j + Len(text), Ok(Unit))
    ELSE Res(j, expected(s, j, text)))

\* Parser::consume
consume(s, i, text) ==
  With(skip_trivia(s, i), LAMBDA j :
    IF StrStartsWith(GetFromOrDefault(s, j), text)
    THEN Res(j + str_len(text), Ok(Unit))
    ELSE Res(j, expected(s, j, text)))

\* the closures the code passes to take_while, and two a caller may pass
Predicates == {"name", "hex", "dec_", "hex_", "bin_", "any", "none"}

ApplyPred(f, c) ==
  CASE f = "name" ->
         is_ascii_alphanumeric(c) \/ (\E k \in 1..Len(StrNameExtra) : StrNameExtra[k] = c)
    [] f = "hex"  -> is_digit(c, 16)
    [] f = "dec_" -> is_digit(c, 10) \/ c = 95
    [] f = "hex_" -> is_digit(c, 16) \/ c = 95
    [] f = "bin_" -> is_digit(c, 2) \/ c = 95
    [] f = "any"  -> TRUE
    [] f = "none" -> FALSE

\* the loop of take_while: the index after the maximal run
RECURSIVE TakeWhileEnd(_, _, _)
TakeWhileEnd(s, i, f) ==
  IF peek_one(s, i).tag = "Some" /\ ApplyPred(f, peek_one(s, i).val)
  THEN TakeWhileEnd(s, advance_one(s, i).index, f)
  ELSE i

\* Parser::take_while
take_while(s, i, f) ==
  Res(TakeWhileEnd(s, i, f), Slice(s, i, TakeWhileEnd(s, i, f)))

\* Parser::parse_name
parse_name(s, i) ==
  With(skip_trivia(s, i), LAMBDA j :
    With(take_while(s, j, "name"), LAMBDA name :
      IF name.ret = <<>>
      THEN Res(name.index, expected(s, name.index, StrName))
      ELSE Res(name.index, Ok(name.ret))))

(***************************************************************************)
(* parse_u64.  A u64 is kept as four 16-bit limbs, least significant       *)
(* first, so that the 64-bit overflow of from_str_radix is exact.          *)
(***************************************************************************)
LimbBase == 2 ^ 16

U64Zero == <<0, 0, 0, 0>>

\* the limbs of a value given limb by limb with carries, or <<>> when the
\* carry out of the top limb is not zero (the value does not fit in 64 bits)
Carry(p1, p2, p3, p4) ==
  With(p2 + (p1 \div LimbBase), LAMBDA q2 :
    With(p3 + (q2 \div LimbBase), LAMBDA q3 :
      With(p4 + (q3 \div LimbBase), LAMBDA q4 :
        IF q4 \div LimbBase > 0 THEN <<>>
        ELSE <<p1 % LimbBase, q2 % LimbBase, q3 % LimbBase, q4 % LimbBase>>)))

\* u64::checked_mul by the radix: <<>> for None
checked_mul(l, m) == Carry(l[1] * m, l[2] * m, l[3] * m, l[4] * m)

\* checked_add wrapping around 2^64 instead of reporting the overflow
wrapping_add(l, d) ==
  With(l[1] + d, LAMBDA p1 :
    With(l[2] + (p1 \div LimbBase), LAMBDA q2 :
      With(l[3] + (q2 \div LimbBase), LAMBDA q3 :
        <<p1 % LimbBase, q2 % LimbBase, q3 % LimbBase,
          (l[4] + (q3 \div LimbBase)) % LimbBase>>)))

\* u64::checked_add of a digit: <<>> for None
checked_add(l, d) == Carry(l[1] + d, l[2], l[3], l[4])

\* one step of the digit loop: checked_mul by the radix, then checked_add
\* of the digit; <<>> when either reports an overflow
MulAdd(acc, radix, d) ==
  IF checked_mul(acc, radix) = <<>> THEN <<>>
  ELSE checked_add(checked_mul(acc, radix), d)

\* the digit loop of u64::from_str_radix on a non-empty run of digits of
\* the radix: Ok(limbs), or Err(PosOverflow) as soon as a step overflows
RECURSIVE FromStrRadixLoop(_, _, _)
FromStrRadixLoop(digits, radix, acc) ==
  CASE acc = <<>> -> Err(StrPosOverflow)
    [] acc # <<>> /\ digits = <<>> -> Ok(acc)
    [] OTHER -> FromStrRadixLoop(Tail(digits), radix,
                                 MulAdd(acc, radix, to_digit(Head(digits), radix)))

\* u64::from_str_radix
from_str_radix(digits, radix) == FromStrRadixLoop(digits, radix, U64Zero)

\* num_str.chars().filter(|c| *c != '_').collect()
FilterUnderscore(s) == SelectSeq(s, LAMBDA c : c # 95)

\* the closure |c| c.is_digit(radix) || c == '_'
RadixPred(radix) == IF radix = 16 THEN "hex_" ELSE IF radix = 2 THEN "bin_" ELSE "dec_"

\* the match on peek_many(2): the radix
RadixOf(pm) ==
  IF pm.tag = "Some" /\ pm.val = StrHexPrefix THEN 16
  ELSE IF pm.tag = "Some" /\ pm.val = StrBinPrefix THEN 2
  ELSE 10

\* parse_u64 after the radix is known, at index k
ParseDigits(s, k, radix) ==
  With(take_while(s, k, RadixPred(radix)), LAMBDA run :
    With(FilterUnderscore(run.ret), LAMBDA num_str :
      IF num_str = <<>>
      THEN Res(run.index, expected(s, run.index, StrNumericDigit))
      ELSE With(from_str_radix(num_str, radix), LAMBDA r :
             IF r.tag = "Ok" THEN Res(run.index, r)
             ELSE Res(run.index, expected_and(s, run.index, StrInteger, r.err)))))

\* Parser::parse_u64
parse_u64(s, i) ==
  With(skip_trivia(s, i), LAMBDA j :
    With(RadixOf(peek_many(s, j, 2)), LAMBDA radix :
      ParseDigits(s, IF radix = 10 THEN j ELSE advance_many(s, j, 2).index, radix)))

(***************************************************************************)
(* parse_char, parse_quoted_char, parse_quoted_string.                     *)
(***************************************************************************)
\* u32::from_str_radix(codepoint_str, 16), kept exact up to 0x10FFFF: a larger
\* value stays at 0x110000, since whether the u32 overflows later or
\* char::from_u32 rejects the value, the result is None either way
RECURSIVE HexAcc(_, _)
HexAcc(digits, acc) ==
  IF digits = <<>> THEN acc
  ELSE With(acc * 16 + to_digit(Head(digits), 16), LAMBDA v :
         HexAcc(Tail(digits), IF v > 1114111 THEN 1114112 ELSE v))

\* u32::from_str_radix(..).ok().and_then(std::char::from_u32): the scalar
\* value, or -1 for None (no digits, above 0x10FFFF, or a surrogate)
CharFromHex(digits) ==
  With(HexAcc(digits, 0), LAMBDA v :
    IF digits = <<>> \/ v > 1114111 \/ v \in 55296..57343 THEN -1 ELSE v)

\* the `Some('u')` arm of parse_char, entered at index i
ParseUnicodeEscape(s, i) ==
  With(consume(s, i, StrLBrace), LAMBDA c1 :
    IF c1.ret.tag = "Err" THEN c1
    ELSE With(take_while(s, c1.index, "hex"), LAMBDA codepoint_str :
      With(consume(s, codepoint_str.index, StrRBrace), LAMBDA c2 :
        IF c2.ret.tag = "Err" THEN c2
        ELSE With(CharFromHex(codepoint_str.ret), LAMBDA chr :
               IF chr = -1
               THEN Res(c2.index, expected(s, c2.index, StrUnicodeCodepoint))
               ELSE Res(c2.index, Ok(chr))))))

\* the inner match of parse_char: a2 is the second advance_one
ParseEscape(s, a2) ==
  IF a2.ret.tag = "None" THEN Res(a2.index, expected(s, a2.index, StrEscapedChar))
  ELSE CASE a2.ret.val = 117 -> ParseUnicodeEscape(s, a2.index)
         [] a2.ret.val = 48  -> Res(a2.index, Ok(0))
         [] a2.ret.val = 110 -> Res(a2.index, Ok(10))
         [] a2.ret.val = 114 -> Res(a2.index, Ok(13))
         [] a2.ret.val = 116 -> Res(a2.index, Ok(9))
         [] a2.ret.val = 39  -> Res(a2.index, Ok(39))
         [] a2.ret.val = 34  -> Res(a2.index, Ok(34))
         [] a2.ret.val = 92  -> Res(a2.index, Ok(92))
         [] OTHER -> Res(a2.index, expected(s, a2.index, <<92, a2.ret.val>>))

\* Parser::parse_char
parse_char(s, i) ==
  CASE advance_one(s, i).ret.tag = "None" ->
         Res(advance_one(s, i).index, expected(s, advance_one(s, i).index, StrChar))
    [] advance_one(s, i).ret.tag = "Some" /\ advance_one(s, i).ret.val # 92 ->
         Res(advance_one(s, i).index, Ok(advance_one(s, i).ret.val))
    [] OTHER -> ParseEscape(s, advance_one(s, advance_one(s, i).index))

\* From<ParseError> for String, applied by `?` in parse_quoted_char: only the
\* message is kept
ErrToString(r) ==
  IF r.ret.tag = "Err"
  THEN Res(r.index, Err([exp |-> r.ret.err.exp, info |-> r.ret.err.info]))
  ELSE r

\* Parser::parse_quoted_char
parse_quoted_char(s, i) ==
  With(skip_trivia(s, i), LAMBDA j :
    With(consume(s, j, StrApostrophe), LAMBDA c1 :
      IF c1.ret.tag = "Err" THEN ErrToString(c1)
      ELSE With(parse_char(s, c1.index), LAMBDA chr :
        IF chr.ret.tag = "Err" THEN ErrToString(chr)
        ELSE With(consume(s, chr.index, StrApostrophe), LAMBDA c2 :
          IF c2.ret.tag = "Err" THEN ErrToString(c2)
          ELSE Res(c2.index, chr.ret)))))

\* the test of the while loop of parse_quoted_string: a char other than '"'
PeekIsNotQuote(s, i) ==
  peek_one(s, i).tag = "Some" /\ peek_one(s, i).val # 34

\* the loop of parse_quoted_string skipping trivia before each char
RECURSIVE QuotedStringBodySkipping(_, _, _)
QuotedStringBodySkipping(s, i, result) ==
  CASE ~PeekIsNotQuote(s, skip_trivia(s, i)) -> Res(skip_trivia(s, i), Ok(result))
    [] PeekIsNotQuote(s, skip_trivia(s, i))
         /\ parse_char(s, skip_trivia(s, i)).ret.tag = "Err" ->
           parse_char(s, skip_trivia(s, i))
    [] OTHER -> QuotedStringBodySkipping(s, parse_char(s, skip_trivia(s, i)).index,
                  Append(result, parse_char(s, skip_trivia(s, i)).ret.val))

\* the while loop of parse_quoted_string: Ok(result) at the closing quote or
\* at the end of the input, or the error of a failing parse_char (the `?`)
RECURSIVE QuotedStringBody(_, _, _)
QuotedStringBody(s, i, result) ==
  CASE ~PeekIsNotQuote(s, i) -> Res(i, Ok(result))
    [] PeekIsNotQuote(s, i) /\ parse_char(s, i).ret.tag = "Err" -> parse_char(s, i)
    [] OTHER -> QuotedStringBody(s, parse_char(s, i).index,
                                 Append(result, parse_char(s, i).ret.val))

\* Parser::parse_quoted_string
parse_quoted_string(s, i) ==
  With(skip_trivia(s, i), LAMBDA j :
    With(consume(s, j, StrQuote), LAMBDA c1 :
      IF c1.ret.tag = "Err" THEN c1
      ELSE With(QuotedStringBody(s, c1.index, <<>>), LAMBDA body :
        IF body.ret.tag = "Err" THEN body
        ELSE With(consume(s, body.index, StrQuote), LAMBDA c2 :
          IF c2.ret.tag = "Err" THEN c2
          ELSE Res(c2.index, body.ret)))))

(***************************************************************************)
(* The cursor as a state machine: `input` is fixed at construction, every   *)
(* method of the trait is an action on `index`.  op, arg, ret and pre       *)
(* record the last call: its name, its argument, what it returned and the   *)
(* index it started from.                                                   *)
(***************************************************************************)
\* chars of the generated inputs: ' ', '\n', '/', '"', '\\', 'a', U+03BB (2 bytes)
Alphabet == {32, 10, 47, 34, 92, 97, 955}

SeqsUpTo(S, n) == UNION {[1..k -> S] : k \in 0..n}

\* longer inputs, among them the examples of the documentation
Samples ==
  { <<32, 32, 47, 47, 32, 97, 10, 32, 32, 47, 47, 32, 98, 10, 32, 120>>, \* "  // a\n  // b\n x"
    <<47, 47, 32, 99>>,                                       \* "// c"
    <<92, 117, 123, 49, 70, 54, 48, 48, 125>>,                \* "\u{1F600}"
    <<92, 117, 32, 123, 52, 49, 47, 47, 10, 125>>,            \* "\u {41//\n}"
    <<92, 117, 123, 68, 56, 48, 48, 125>>,                    \* "\u{D800}"
    <<92, 117, 123, 125>>,                                    \* "\u{}"
    <<92, 113>>,                                              \* "\q"
    <<39, 92, 110, 39>>,                                      \* "'\n'"
    <<39, 955, 39, 32>>,                                      \* "'λ' "
    <<102, 111, 45, 46, 49, 47, 36, 120, 32, 114>>,           \* "fo-.1/$x r"
    <<48, 120, 49, 70>>,                                      \* "0x1F"
    <<49, 95, 48, 32, 40>>,                                   \* "1_0 ("
    <<34, 97, 92, 34, 98, 34, 59>>,                           \* "\"a\\\"b\";"
    <<34, 97, 32>>,                                           \* "\"a "
    <<128512, 8364, 97>> }                                    \* U+1F600 U+20AC 'a'

Texts == SeqsUpTo(Alphabet, MaxLen) \cup Samples

\* the literals passed to consume and starts_with
Literals == {<<>>, <<47>>, <<34>>, <<97>>, <<955>>, <<97, 955>>, <<40>>}

Counts == 0..MaxCount

\* new_parser!: Self { input, index: 0 }
Init ==
  /\ input \in Texts
  /\ index = 0
  /\ op = "new"
  /\ arg = <<>>
  /\ ret = None
  /\ pre = 0

\* a call of the method `name` with argument a, which leaves the cursor at
\* r.index and returns r.ret
Call(name, a, r) ==
  /\ op' = name
  /\ arg' = a
  /\ ret' = r.ret
  /\ index' = r.index
  /\ pre' = index
  /\ UNCHANGED input

\* the value of a method returning bool, and of one returning ()
Bool(b) == [tag |-> "Bool", val |-> b]
Returned == [tag |-> "Unit"]

Expected == \E exp \in {StrName} :
  Call("expected", exp, Res(index, expected(input, index, exp)))

ExpectedAnd == \E exp \in {StrInteger} :
  Call("expected_and", exp, Res(index, expected_and(input, index, exp, StrPosOverflow)))

PeekOne == Call("peek_one", <<>>, Res(index, peek_one(input, index)))

PeekMany == \E n \in Counts :
  Call("peek_many", n, Res(index, peek_many(input, index, n)))

AdvanceOne == Call("advance_one", <<>>, advance_one(input, index))

AdvanceMany == \E n \in Counts :
  Call("advance_many", n, advance_many(input, index, n))

SkipSpaces == Call("skip_spaces", <<>>, Res(skip_spaces(input, index), Returned))

SkipTrivia == Call("skip_trivia", <<>>, Res(skip_trivia(input, index), Returned))

IsEof == Call("is_eof", <<>>, Res(index, Bool(is_eof(input, index))))

Consume == \E text \in Literals :
  Call("consume", text, consume(input, index, text))

StartsWith == \E text \in Literals :
  Call("starts_with", text, Res(index, Bool(starts_with(input, index, text))))

TakeWhile == \E f \in Predicates :
  Call("take_while", f, take_while(input, index, f))

ParseName == Call("parse_name", <<>>, parse_name(input, index))

ParseU64 == Call("parse_u64", <<>>, parse_u64(input, index))

ParseChar == Call("parse_char", <<>>, parse_char(input, index))

ParseQuotedChar == Call("parse_quoted_char", <<>>, parse_quoted_char(input, index))

ParseQuotedString == Call("parse_quoted_string", <<>>, parse_quoted_string(input, index))

Next ==
  \/ Expected
  \/ ExpectedAnd
  \/ PeekOne
  \/ PeekMany
  \/ AdvanceOne
  \/ AdvanceMany
  \/ SkipSpaces
  \/ SkipTrivia
  \/ IsEof
  \/ Consume
  \/ StartsWith
  \/ TakeWhile
  \/ ParseName
  \/ ParseU64
  \/ ParseChar
  \/ ParseQuotedChar
  \/ ParseQuotedString

Spec == Init /\ [][Next]_vars

(***************************************************************************)
(* The round trip of parse_quoted_string: a cursor constructed over the    *)
(* serialization of a string S (kept in arg), then parse_quoted_string.    *)
(***************************************************************************)
\* chars of the serialized strings: '"', '\\', 'a', 'u', ' ', '/', '\n', U+03BB
RTAlphabet == {34, 92, 97, 117, 32, 47, 10, 955}

RTStrings == SeqsUpTo(RTAlphabet, MaxStrLen)

\* S with each backslash and double quote preceded by a backslash
RECURSIVE Escape(_)
Escape(S) ==
  IF S = <<>> THEN <<>>
  ELSE IF Head(S) \in {34, 92} THEN <<92, Head(S)>> \o Escape(Tail(S))
  ELSE <<Head(S)>> \o Escape(Tail(S))

\* the escaped S wrapped in double quotes
Serialize(S) == <<34>> \o Escape(S) \o <<34>>

InitRT ==
  /\ arg \in RTStrings
  /\ input = Serialize(arg)
  /\ index = 0
  /\ op = "new"
  /\ ret = None
  /\ pre = 0

ParseSerialized ==
  /\ op = "new"
  /\ Call("parse_quoted_string", arg, parse_quoted_string(input, index))

NextRT == ParseSerialized

SpecRT == InitRT /\ [][NextRT]_vars

(***************************************************************************)
(* parse_u64 over numeric texts.                                           *)
(***************************************************************************)
\* chars of the generated numeric texts: '0', '1', '9', 'F', 'b', 'x', '_', ' '
NumAlphabet == {48, 49, 57, 70, 98, 120, 95, 32}

\* n copies of the char c
Repeat(c, n) == [k \in 1..n |-> c]

\* longer numeric texts: the examples of the documentation, texts around the
\* largest u64 in radix 10 and 16, and sixteen-digit texts in radix 2
NumSamples ==
  { <<48, 120, 49, 70>>,                                      \* "0x1F"
    <<48, 98, 49, 48, 49>>,                                   \* "0b101"
    <<49, 95, 48, 48, 48>>,                                   \* "1_000"
    <<32, 47, 47, 32, 99, 10, 32, 48, 120, 97, 95, 66, 103>>, \* " // c\n 0xa_Bg"
    <<49, 56, 52, 52, 54, 55, 52, 52, 48, 55, 51, 55, 48, 57, 53, 53, 49, 54, 49, 53>>,
                                                              \* "18446744073709551615"
    <<49, 56, 52, 52, 54, 55, 52, 52, 48, 55, 51, 55, 48, 57, 53, 53, 49, 54, 49, 54>>,
                                                              \* "18446744073709551616"
    <<48, 48>> \o Repeat(57, 20),                             \* "00" and twenty '9'
    StrHexPrefix \o Repeat(70, 16),                           \* "0x" and sixteen 'F'
    StrHexPrefix \o <<49>> \o Repeat(48, 16),                 \* "0x1" and sixteen '0'
    StrBinPrefix \o Repeat(49, 16),                           \* "0b" and sixteen '1'
    StrBinPrefix \o <<49, 95>> \o Repeat(48, 16) }            \* "0b1_" and sixteen '0'

NumTexts == SeqsUpTo(NumAlphabet, MaxNumLen) \cup NumSamples

InitU64 ==
  /\ input \in NumTexts
  /\ index = 0
  /\ op = "new"
  /\ arg = <<>>
  /\ ret = None
  /\ pre = 0

NextU64 == ParseU64

SpecU64 == InitU64 /\ [][NextU64]_vars

(***************************************************************************)
(* Properties.                                                             *)
(***************************************************************************)
\* the number of chars after the boundary i
Remaining(s, i) == Len(GetFromOrDefault(s, i))

\* the next n chars after the boundary i
NextChars(s, i, n) == SubSeq(GetFromOrDefault(s, i), 1, n)

\* C1: after any operation, successful or not, the position is a char
\* boundary of the text and lies in [0, len(text)].
Thm_C1 ==
  /\ 0 <= index
  /\ index <= str_len(input)
  /\ is_char_boundary(input, index)

\* a parse_quoted_string from the start that failed at the end of a text
\* holding a multi-byte char
W_C1 ==
  /\ op = "parse_quoted_string"
  /\ ret.tag = "Err"
  /\ pre = 0
  /\ index = str_len(input)
  /\ index > Len(input)

\* C2: peek_many(n) returns exactly the next n chars when n remain, and None
\* when fewer than n remain; the position is unchanged.
CE_C2 ==
  op = "peek_many" =>
    /\ index = pre
    /\ IF arg <= Remaining(input, pre)
       THEN ret.tag = "Some" /\ ret.val = NextChars(input, pre, arg)
       ELSE ret.tag = "None"

\* C3: advance_many(n) consumes exactly n chars and returns them when n
\* remain; otherwise it returns None and leaves the position unchanged.
CE_C3 ==
  op = "advance_many" =>
    IF arg <= Remaining(input, pre)
    THEN /\ ret.tag = "Some" /\ ret.val = NextChars(input, pre, arg)
         /\ index = pre + str_len(NextChars(input, pre, arg))
    ELSE ret.tag = "None" /\ index = pre

\* the methods that return a Result
Fallible ==
  {"expected", "expected_and", "consume", "parse_name", "parse_u64", "parse_char",
   "parse_quoted_char", "parse_quoted_string"}

\* C4: every failure carries a span (start, end) with start the position at
\* the failure, end = start + 1 and start <= end <= len(text), also at the
\* end of the input.
CE_C4 ==
  (op \in Fallible /\ ret.tag = "Err") =>
    /\ "span" \in DOMAIN ret.err
    /\ ret.err.span = <<index, index + 1>>
    /\ ret.err.span[2] <= str_len(input)

\* n successive calls of advance_one from i: the final index and the chars
RECURSIVE AdvanceOneTimes(_, _, _)
AdvanceOneTimes(s, i, n) ==
  IF n = 0 THEN Res(i, <<>>)
  ELSE LET a == advance_one(s, i)
           rest == AdvanceOneTimes(s, a.index, n - 1)
       IN  Res(rest.index, <<a.ret.val>> \o rest.ret)

\* C5: for n not above the number of remaining chars, advance_many(n) yields
\* the substring and the final position of n successive advance_one calls.
Thm_C5 ==
  (op = "advance_many" /\ arg <= Remaining(input, pre)) =>
    LET r == AdvanceOneTimes(input, pre, arg)
    IN  ret.tag = "Some" /\ ret.val = r.ret /\ index = r.index

\* advance_many(2) from inside the text over a multi-byte char
W_C5 ==
  /\ op = "advance_many"
  /\ arg = 2
  /\ pre > 0
  /\ ret.tag = "Some"
  /\ Len(ret.val) = 2
  /\ str_len(ret.val) > 2

\* C6: skip_trivia is idempotent: a second call right after a first consumes
\* nothing, the first having stopped at the end of the input or at a char
\* that is neither ASCII whitespace nor the start of a `//` comment.
Thm_C6 ==
  op = "skip_trivia" =>
    /\ skip_trivia(input, index) = index
    /\ \/ index = str_len(input)
       \/ /\ ~is_ascii_whitespace(Head(GetFromOrDefault(input, index)))
          /\ ~StrStartsWith(GetFromOrDefault(input, index), StrSlashSlash)

\* skip_trivia ran from the start through a comment that reaches the end of
\* the input with no newline
W_C6 ==
  /\ op = "skip_trivia"
  /\ pre = 0
  /\ index = str_len(input)
  /\ StrStartsWith(input, StrSlashSlash)
  /\ \A k \in 1..Len(input) : input[k] # 10

\* C9: consume(literal) skips trivia; on a match it returns Ok and advances
\* by the byte length of the literal; otherwise it fails with span
\* (position, position + 1), names the literal, and stays where the trivia
\* skipping left it.
Thm_C9 ==
  op = "consume" =>
    LET j == skip_trivia(input, pre)
        rest == GetFromOrDefault(input, j)
    IN  IF Len(arg) <= Len(rest) /\ SubSeq(rest, 1, Len(arg)) = arg
        THEN ret.tag = "Ok" /\ index = j + str_len(arg)
        ELSE /\ ret.tag = "Err"
             /\ ret.err.span = <<j, j + 1>>
             /\ ret.err.exp = arg
             /\ index = j

\* a consume that skipped trivia and then failed inside the text
W_C9 ==
  /\ op = "consume"
  /\ ret.tag = "Err"
  /\ pre < index
  /\ index < str_len(input)

\* a consume that skipped trivia and then matched a multi-byte literal
W_C9_match ==
  /\ op = "consume"
  /\ ret.tag = "Ok"
  /\ pre < skip_trivia(input, pre)
  /\ str_len(arg) > Len(arg)

\* the methods that do not consume
NonConsuming == {"peek_one", "peek_many", "starts_with", "is_eof", "expected", "expected_and"}

\* C10: the position never decreases, whether a call succeeds or fails, and
\* the non-consuming methods leave it unchanged.
Thm_C10 ==
  [][/\ index' >= index
     /\ op' \in NonConsuming => index' = index]_vars

\* a parse_char that failed after consuming input, which stays consumed
W_C10 ==
  /\ op = "parse_char"
  /\ ret.tag = "Err"
  /\ pre < index

\* C7: parse_quoted_string round-trips: parsing the serialization of S
\* (backslashes and double quotes escaped, wrapped in double quotes) returns
\* Ok(S) with the cursor just after the closing quote.
Thm_C7 ==
  op = "parse_quoted_string" =>
    /\ ret.tag = "Ok"
    /\ ret.val = arg
    /\ index = str_len(input)

\* the round trip of a string holding a quote, a backslash and whitespace
W_C7 ==
  /\ op = "parse_quoted_string"
  /\ ret.tag = "Ok"
  /\ \E k \in 1..Len(arg) : arg[k] = 34
  /\ \E k \in 1..Len(arg) : arg[k] = 92
  /\ \E k \in 1..Len(arg) : arg[k] = 32

\* the digit chars of a radix, and the value of a digit char
DigitChars(radix) ==
  IF radix = 16 THEN (48..57) \cup (65..70) \cup (97..102)
  ELSE IF radix = 2 THEN {48, 49}
  ELSE 48..57

DigitValue(c) == IF c <= 57 THEN c - 48 ELSE IF c <= 70 THEN c - 55 ELSE c - 87

\* the length of the maximal prefix of s made of chars of D
RunLength(s, D) ==
  CHOOSE n \in 0..Len(s) :
    /\ \A k \in 1..n : s[k] \in D
    /\ n = Len(s) \/ s[n + 1] \notin D

\* the digit values of a run of digit chars, leading zeros dropped
RECURSIVE Significant(_)
Significant(s) ==
  IF s = <<>> THEN <<>>
  ELSE IF Head(s) = 48 THEN Significant(Tail(s))
  ELSE [k \in 1..Len(s) |-> DigitValue(s[k])]

\* the digits of 2^64 - 1 in a radix
MaxU64Digits(radix) ==
  IF radix = 16 THEN Repeat(15, 16)
  ELSE IF radix = 2 THEN Repeat(1, 64)
  ELSE <<1, 8, 4, 4, 6, 7, 4, 4, 0, 7, 3, 7, 0, 9, 5, 5, 1, 6, 1, 5>>

\* a <= b for digit sequences of the same length: at the first place where
\* they differ, a has the smaller digit
DigitsLeq(a, b) ==
  \A k \in 1..Len(a) : (\A m \in 1..(k - 1) : a[m] = b[m]) => a[k] <= b[k]

\* the number with significant digits d fits in an unsigned 64-bit integer
FitsU64(d, radix) ==
  \/ Len(d) < Len(MaxU64Digits(radix))
  \/ Len(d) = Len(MaxU64Digits(radix)) /\ DigitsLeq(d, MaxU64Digits(radix))

\* the quotient q and the remainder r of a u64 (four 16-bit limbs) by a radix
DivMod(l, radix) ==
  LET c4 == l[4]
      c3 == (c4 % radix) * LimbBase + l[3]
      c2 == (c3 % radix) * LimbBase + l[2]
      c1 == (c2 % radix) * LimbBase + l[1]
  IN  [q |-> <<c1 \div radix, c2 \div radix, c3 \div radix, c4 \div radix>>,
       r |-> c1 % radix]

\* the digits of l in a radix put in front of the digits `low`, by repeated
\* division (a u64 has at most 64 digits)
RECURSIVE DigitsOfU64From(_, _, _)
DigitsOfU64From(l, radix, low) ==
  IF l = U64Zero \/ Len(low) >= 64 THEN low
  ELSE DigitsOfU64From(DivMod(l, radix).q, radix, <<DivMod(l, radix).r>> \o low)

\* the digits of a u64 in a radix, most significant first, <<>> for zero
DigitsOfU64(l, radix) == DigitsOfU64From(l, radix, <<>>)

\* C8: parse_u64 skips trivia, takes radix 16 after "0x", 2 after "0b" and 10
\* otherwise, consumes the maximal run of digits of the radix and '_', and
\* returns the value of the digits without '_'; it fails with "numeric
\* digit" when no digit is left and with an integer error when the value
\* does not fit in 64 bits.
Thm_C8 ==
  op = "parse_u64" =>
    LET j == skip_trivia(input, pre)
        rest == GetFromOrDefault(input, j)
        radix == IF StrStartsWith(rest, StrHexPrefix) THEN 16
                 ELSE IF StrStartsWith(rest, StrBinPrefix) THEN 2
                 ELSE 10
        body == IF radix = 10 THEN rest ELSE SubSeq(rest, 3, Len(rest))
        n == RunLength(body, DigitChars(radix) \cup {95})
        digits == SelectSeq(SubSeq(body, 1, n), LAMBDA c : c # 95)
    IN  /\ index = j + (IF radix = 10 THEN 0 ELSE 2) + n
        /\ IF digits = <<>>
           THEN ret.tag = "Err" /\ ret.err.exp = StrNumericDigit
           ELSE IF FitsU64(Significant(digits), radix)
           THEN ret.tag = "Ok" /\ DigitsOfU64(ret.val, radix) = Significant(digits)
           ELSE ret.tag = "Err" /\ ret.err.exp = StrInteger
        /\ (pre = 0 /\ input = <<48, 120, 49, 70>>) =>
             ret.tag = "Ok" /\ ret.val = <<31, 0, 0, 0>>
        /\ (pre = 0 /\ input = <<48, 98, 49, 48, 49>>) =>
             ret.tag = "Ok" /\ ret.val = <<5, 0, 0, 0>>
        /\ (pre = 0 /\ input = <<49, 95, 48, 48, 48>>) =>
             ret.tag = "Ok" /\ ret.val = <<1000, 0, 0, 0>>
        /\ input = <<>> => ret.tag = "Err" /\ ret.err.exp = StrNumericDigit

\* a parse_u64 of twenty decimal digits that do not fit in 64 bits
W_C8 ==
  /\ op = "parse_u64"
  /\ pre = 0
  /\ Len(input) = 20
  /\ ret.tag = "Err"
  /\ ret.err.exp = StrInteger

\* a parse_u64 of a hexadecimal text with a separator after trivia
W_C8_hex ==
  /\ op = "parse_u64"
  /\ pre = 0
  /\ ret.tag = "Ok"
  /\ ret.val = <<171, 0, 0, 0>>
  /\ 0 < index /\ index < str_len(input)

====
